---------------------------- MODULE Spec2Model ----------------------------
(***************************************************************************)
(* The HTTP request pipeline of disnake/http/http.py: RateLimit,           *)
(* GlobalRateLimit and HTTPHandler.request, as a state machine whose steps *)
(* are the stretches of code between two suspension points of the asyncio  *)
(* scheduler (an await that really suspends: Event.wait on a clear event,  *)
(* the HTTPS round trip, reading the body, asyncio.sleep).  Beside it, the  *)
(* DispatchFramework of disnake/core/dispatch.py that the Bot builds with   *)
(* the handler: wait_for and dispatch on one event.                        *)
(***************************************************************************)
EXTENDS Integers, FiniteSets, Sequences, TLC

(***************************************************************************)
(* Bounds of the model and constants of the program.                       *)
(***************************************************************************)
MaxLimiters == 3        \* local RateLimit objects that may be created
MaxInFlight == 2        \* request() calls running at the same time
MaxCalls == 3           \* request() calls made in one run
MaxRetryCount == 5      \* max_retry_count
TimeOffset == 0         \* HTTPHandler time_offset
DefaultMaxPerSecond == 2  \* default_max_per_second the handler is built with
TicksPerSecond == 2     \* resolution of the clock, where time is counted
GrantCap == 3           \* the count of grants saturates here, above any limit
MaxFaults == 1          \* retried answers and connection errors of a faulty run
FaultCalls == 2         \* request() calls made in the smaller runs
ClockCalls == 4         \* request() calls made in a run with the clock
RaceCalls == 4          \* request() calls made in a run of racing requests
RetryFaults == 4        \* retried answers of a run that exhausts the loop
GlobalFaults == 2       \* global 429 answers of a run
BackoffFaults == 5      \* 502 answers of a run
DispatchFaults == 3     \* 429 answers of a run
HappyCalls == 3         \* request() calls made one after the other
HappyLimit == 5         \* X-RateLimit-Limit of the route they use
MaxCred == 4            \* distinct credential strings
MaxSnowflake == 1       \* distinct values of one major parameter
RebindFaults == 5       \* 502 answers of a run with rebinds
LiveFaults == 5         \* retried answers of a run that is scheduled fairly
MaxWaiters == 2         \* wait_for calls made on the event
MaxDispatches == 3      \* dispatch calls made on the event

None == 0
Absent == -1            \* an absent X-RateLimit-Remaining header

Tasks == 1..MaxInFlight
Routes == {"r1", "r2"}     \* (method, Route.bucket)
Auths == {1}               \* Authorization values
Slots == Routes \X Auths   \* keys of _url_rate_limits
Buckets == {1, 2}          \* X-RateLimit-Bucket values of the server
LocalIds == 1..MaxLimiters
GlobalOf(a) == 0 - a       \* the object of _global_rate_limits[a]
GlobalIds == {GlobalOf(a) : a \in Auths}
LimIds == LocalIds \cup GlobalIds

Min(a, b) == IF a < b THEN a ELSE b

VARIABLES
    lim,        \* every RateLimit object, by identity
    nlim,       \* local RateLimit objects created so far
    globals,    \* _global_rate_limits: auth -> object or None
    routes,     \* _url_rate_limits: slot -> object or None
    buckets,    \* _buckets: bucket name -> object or None
    task,       \* the request() coroutines
    gh,         \* history of the run, read by the properties only
    events      \* Bot.events, the DispatchFramework

vars == <<lim, nlim, globals, routes, buckets, task, gh, events>>

(***************************************************************************)
(* Responses of the server.  Rate-limit headers come as a full set or not  *)
(* at all, with remaining <= limit; a global 429 carries                   *)
(* X-RateLimit-Global and X-RateLimit-Scope: global and no bucket headers. *)
(***************************************************************************)
NoHeaders(st) ==
    [status |-> st, glob |-> FALSE, scope |-> FALSE, bucket |-> None,
     limit |-> None, remaining |-> Absent, reset_after |-> None,
     retry_after |-> None, retry_hdr |-> None]

Headers(st, b, l, r, ra) ==
    [status |-> st, glob |-> FALSE, scope |-> FALSE, bucket |-> b,
     limit |-> l, remaining |-> r, reset_after |-> ra,
     retry_after |-> None, retry_hdr |-> None]

Global429(body, hdr) ==
    [status |-> 429, glob |-> TRUE, scope |-> TRUE, bucket |-> None,
     limit |-> None, remaining |-> Absent, reset_after |-> None,
     retry_after |-> body, retry_hdr |-> hdr]

NoResp == NoHeaders(0)

(***************************************************************************)
(* RateLimit: one object.                                                  *)
(***************************************************************************)
NewRateLimit ==
    [limit |-> 1, remaining |-> 1, reset_after |-> 1, bucket |-> None,
     first_update |-> TRUE, timer |-> None, left |-> 0, tasks |-> 0,
     ev |-> TRUE, deny |-> FALSE, migrating |-> None]

NewGlobalRateLimit(a) ==
    [NewRateLimit EXCEPT !.limit = DefaultMaxPerSecond,
                         !.remaining = DefaultMaxPerSecond,
                         !.reset_after = 1 + TimeOffset,
                         !.bucket = GlobalOf(a)]

\* timer holds the sleep time of the reset task _reset_remaining_task refers
\* to while it is live, None when there is none, and left the ticks of the
\* clock it has still to sleep; tasks counts the reset tasks that were
\* created and have neither finished nor been cancelled
Resetting(L) == L.timer # None

\* a cancel() that is left out
CancelNothing(L) == L

\* _reset_remaining_task.cancel()
CancelResetTask(L) == [L EXCEPT !.timer = None, !.left = 0, !.tasks = @ - 1]

\* a start_reset_task that creates no task
StartResetTaskNever(L) == L

\* start_reset_task
StartResetTask(L) ==
    LET L1 == IF Resetting(L) THEN CancelResetTask(L) ELSE L
    IN  [L1 EXCEPT !.timer = L.reset_after,
                   !.left = L.reset_after * TicksPerSecond,
                   !.tasks = @ + 1]

\* a reset that refills the limiter and tells nobody
ResetRemainingSilent(L) ==
    [L EXCEPT !.remaining = L.limit, !.timer = None, !.left = 0, !.tasks = @ - 1]

\* a reset that wakes the waiters and refills nothing
ResetRemainingEmpty(L) ==
    [L EXCEPT !.ev = TRUE, !.timer = None, !.left = 0, !.tasks = @ - 1]

\* reset_remaining, its sleep over
ResetRemaining(L) ==
    [L EXCEPT !.remaining = L.limit, !.ev = TRUE, !.timer = None, !.left = 0,
              !.tasks = @ - 1]

\* a demotion that leaves no mark
MigrateToUnmarked(L, b) == [L EXCEPT !.remaining = L.limit, !.ev = TRUE]

\* a demotion that names the other bucket
MigrateToOther(L, b) ==
    [L EXCEPT !.migrating = 3 - b, !.remaining = L.limit, !.ev = TRUE]

\* migrate_to
MigrateTo(L, b) ==
    [L EXCEPT !.migrating = b, !.remaining = L.limit, !.ev = TRUE]

\* an acquire() that never locks
AcquireCheckNever(L) == L

\* the test made on entry of acquire() and again after every wake
AcquireCheck(L) ==
    IF L.remaining <= 0 /\ L.ev
    THEN LET L1 == [L EXCEPT !.ev = FALSE]
         IN  IF ~Resetting(L1) THEN StartResetTask(L1) ELSE L1
    ELSE L

\* an acquire() that does not look at migrating
AcquireOutcomeBlind(L) == IF L.deny THEN "deny" ELSE "ok"

\* what acquire() does once the event is seen set
AcquireOutcome(L) ==
    IF L.migrating # None THEN "migrating"
    ELSE IF L.deny THEN "deny"
    ELSE "ok"

AcquireTake(L) == [L EXCEPT !.remaining = @ - 1]

\* a global acquire() that leaves the reset task to others
GlobalAcquireTakeUnarmed(G) == AcquireTake(G)

\* GlobalRateLimit.acquire after the event is seen set
GlobalAcquireTake(G) ==
    LET G1 == AcquireTake(G)
    IN  IF ~Resetting(G1) THEN StartResetTask(G1) ELSE G1

\* a server that never marks a response global
ForGlobalNever(r) == FALSE

\* response.headers.get("X-RateLimit-Global") == "true"
ForGlobal(r) == r.glob

UpdateRaises(L, r) ==
    ~r.glob /\ L.bucket # r.bucket /\ L.bucket # None

\* an update that never lets remaining go up, not even the first one
UpdateRemainingPessimistic(L, r) ==
    IF r.remaining = Absent THEN 1 ELSE Min(r.remaining, L.remaining)

\* lines 212-224: X-RateLimit-Remaining
UpdateRemaining(L, r) ==
    IF r.remaining = Absent THEN 1
    ELSE IF L.first_update THEN r.remaining
    ELSE Min(r.remaining, L.remaining)

\* an update that notes a 404 before it looks at the bucket
UpdateRaisedDeny(L, r) == [L EXCEPT !.deny = @ \/ (r.status = 404)]

\* lines 192-203: what update has assigned when it raises IncorrectBucket
UpdateRaised(L, r) == L

\* lines 231-243: reset_after only grows, and the reset task is re-armed then
UpdateResetAfter(L, r) ==
    IF r.reset_after # None /\ L.reset_after < r.reset_after + TimeOffset
    THEN StartResetTask([L EXCEPT !.reset_after = r.reset_after + TimeOffset])
    ELSE L

Update(L, r) ==
    IF ForGlobal(r) THEN L
    ELSE
    LET L1 == [L EXCEPT !.bucket = IF @ = None THEN r.bucket ELSE @,
                        !.deny = @ \/ (r.status = 404),
                        !.limit = IF r.limit = None THEN 1 ELSE r.limit,
                        !.remaining = UpdateRemaining(L, r)]
        L2 == UpdateResetAfter(L1, r)
        L3 == IF ~Resetting(L2) THEN StartResetTask(L2) ELSE L2
        L4 == IF 0 < L3.remaining /\ ~L3.ev THEN [L3 EXCEPT !.ev = TRUE] ELSE L3
    IN  [L4 EXCEPT !.first_update = FALSE]

\* GlobalRateLimit.update up to its await of response.json()
GlobalUpdateHit(G) == [G EXCEPT !.remaining = 0]

\* an update that does not read retry_after
GlobalUpdateRetryIgnored(G, r) == G

\* ... the retry_after of the body, else of the Retry-After header
GlobalUpdateRetry(G, r) ==
    LET ra == IF r.retry_after # None THEN r.retry_after ELSE r.retry_hdr
    IN  IF ra # None
        THEN StartResetTask([G EXCEPT !.reset_after = ra + TimeOffset])
        ELSE G

\* an end of the update that clears the latch and arms nothing
GlobalUpdateTailUnarmed(G) == [G EXCEPT !.ev = FALSE]

\* ... and its end
GlobalUpdateTail(G) ==
    LET G1 == [G EXCEPT !.ev = FALSE]
    IN  IF ~Resetting(G1) THEN StartResetTask(G1) ELSE G1

\* GlobalRateLimit.update as a whole, response.json() returning at once
GlobalUpdate(G, r) ==
    IF ~ForGlobal(r) \/ r.status # 429 THEN G
    ELSE LET G1 == GlobalUpdateHit(G)
         IN  GlobalUpdateTail(IF r.scope THEN GlobalUpdateRetry(G1, r) ELSE G1)

(***************************************************************************)
(* The whole program state as one value, so that the code between two      *)
(* suspension points composes into one step.  ovf is raised when a step    *)
(* would create one RateLimit more than the model holds; such a step is    *)
(* not taken.                                                              *)
(***************************************************************************)
World ==
    [lim |-> lim, nlim |-> nlim, globals |-> globals, routes |-> routes,
     buckets |-> buckets, task |-> task, gh |-> gh, ovf |-> FALSE]

\* the locals of a request() coroutine (status and scope are those of
\* response); sent, after404 and mig are history, and so are fresh (the
\* current iteration has received a response), sends (HTTPS requests sent),
\* slept (the sleeps made), seen (statuses received), n429 (429 responses
\* received), ndisp (http_ratelimit dispatches made), late (request() was
\* called after the latest global 429 had been processed), early (it sent
\* while the retry_after of that 429 had not passed) and held (the url
\* limiter it has waited on with no reset of that limiter since)
IdleTask ==
    [pc |-> "idle", slot |-> <<"r1", 1>>, url |-> None, retry |-> 0,
     status |-> None, ret |-> None, resp |-> NoResp, out |-> "none",
     scope |-> FALSE, sent |-> FALSE, after404 |-> FALSE, mig |-> None,
     fresh |-> FALSE, sends |-> 0, slept |-> <<>>, seen |-> {},
     n429 |-> 0, ndisp |-> 0, late |-> FALSE, early |-> FALSE,
     held |-> None, rebinds |-> 0, trail |-> <<>>, raised |-> FALSE]

\* history: the request t has reached the point e of its iteration
Mark(s, t, e) ==
    IF "order" \in s.gh.rec THEN [s EXCEPT !.task[t].trail = Append(@, e)] ELSE s

\* the RateLimit a suspended acquire() waits on
WaitsOn(tk) ==
    IF tk.pc = "gwait" THEN GlobalOf(tk.slot[2])
    ELSE IF tk.pc = "lwait" THEN tk.url
    ELSE None

\* an Event.set() that resolves no wait()
WakeNobody(s, l) == s

\* asyncio.Event.set(): every pending wait() is resolved; the waiters run later
Wake(s, l) ==
    [s EXCEPT !.task = [t \in Tasks |->
        IF WaitsOn(s.task[t]) = l
        THEN [s.task[t] EXCEPT !.pc = IF @ = "gwait" THEN "gwoken" ELSE "lwoken"]
        ELSE s.task[t]]]

\* store an object's new fields; a set of its event wakes its waiters
SetLim(s, l, L) ==
    LET s1 == [s EXCEPT !.lim[l] = L]
    IN  IF L.ev /\ ~s.lim[l].ev THEN Wake(s1, l) ELSE s1

\* history: one more successful acquire() on l
Granted(s, l) ==
    LET s1 == IF "grants" \in s.gh.rec
              THEN [s EXCEPT !.gh.grants[l] = Min(@ + 1, GrantCap)] ELSE s
        s2 == IF "window" \in s.gh.rec /\ l \in GlobalIds
              THEN [s1 EXCEPT !.gh.recent[0] = Min(@ + 1, GrantCap)] ELSE s1
    IN  IF s.lim[l].migrating # None
        THEN [s2 EXCEPT !.gh.flags = @ \cup {"grant_on_demoted"}]
        ELSE s2

\* _make_url_rate_limit
MakeUrlRateLimit(s, slot) ==
    IF s.nlim >= MaxLimiters THEN [s EXCEPT !.ovf = TRUE]
    ELSE [s EXCEPT !.nlim = @ + 1,
                   !.lim[s.nlim + 1] = NewRateLimit,
                   !.routes[slot] = s.nlim + 1]

\* _make_global_rate_limit
MakeGlobalRateLimit(s, a) ==
    [s EXCEPT !.lim[GlobalOf(a)] = NewGlobalRateLimit(a),
              !.globals[a] = GlobalOf(a)]

\* request() ends: it returns ret or raises; its locals are gone, but for
\* the status of its last response, which the exception carries.  Of a
\* request that ends in its except RateLimitMigrating, the history keeps
\* the limiter it left and its retry_count.
Finish(s, t, out) ==
    [s EXCEPT !.task[t] =
        [IdleTask EXCEPT !.pc = "done", !.out = out,
                         !.slot = s.task[t].slot,
                         !.ret = IF out = "returned" THEN s.task[t].ret ELSE None,
                         !.status = s.task[t].status,
                         !.sent = s.task[t].sent,
                         !.after404 = s.task[t].after404,
                         !.mig = s.task[t].mig,
                         !.fresh = s.task[t].fresh,
                         !.sends = s.task[t].sends,
                         !.slept = s.task[t].slept,
                         !.seen = s.task[t].seen,
                         !.n429 = s.task[t].n429,
                         !.ndisp = s.task[t].ndisp,
                         !.rebinds = s.task[t].rebinds,
                         !.trail = s.task[t].trail,
                         !.raised = s.task[t].raised,
                         !.retry = IF s.task[t].mig # None \/ "rebinds" \in s.gh.rec
                                   THEN s.task[t].retry ELSE 0]]

RECURSIVE GlobalAcquire(_, _)

\* the for loop takes its next retry_count, or is exhausted: return ret
NextIter(s, t) ==
    IF s.task[t].retry + 1 >= MaxRetryCount
    THEN Finish(s, t, "returned")
    ELSE GlobalAcquire([s EXCEPT !.task[t].retry = @ + 1,
                                 !.task[t].fresh = FALSE,
                                 !.task[t].trail = <<>>], t)

\* the end of the loop body, reached when the attempt is to be retried
LoopBottom(s, t) ==
    IF s.task[t].retry >= MaxRetryCount - 1 /\ s.task[t].status # None
    THEN Finish(s, t, IF s.task[t].status >= 500 THEN "ServerError"
                      ELSE "HTTPException")
    ELSE NextIter(s, t)

\* except RateLimitMigrating; mig notes the limiter a woken waiter leaves
CatchMigrating(s, t) ==
    LET old == s.task[t].url
        m == s.lim[old].migrating
        woken == s.task[t].pc = "lwoken"
    IN  IF m = None THEN Finish(s, t, "ValueError")
        ELSE IF s.buckets[m] = None THEN Finish(s, t, "ValueError")
        ELSE LoopBottom([s EXCEPT !.task[t].url = s.buckets[m],
                                  !.task[t].mig = IF woken THEN old ELSE None],
                        t)

\* after both acquisitions: the check of the slot, then the HTTPS request
AfterLocalGrant(s, t) ==
    LET temp == s.routes[s.task[t].slot]
    IN  IF temp # s.task[t].url
        THEN NextIter([s EXCEPT !.task[t].url = temp,
                                !.task[t].rebinds = IF "rebinds" \in s.gh.rec
                                                    THEN @ + 1 ELSE @], t)
        ELSE [Mark(s, t, "send") EXCEPT
                       !.task[t].pc = "http", !.task[t].sent = TRUE,
                       !.task[t].early =
                            s.task[t].late /\ s.gh.quiet[s.task[t].slot[2]] > 0,
                       !.task[t].sends =
                            IF {"attempts", "sends"} \cap s.gh.rec # {}
                            THEN @ + 1 ELSE @]

\* RateLimit.acquire() of url_rate_limit, from its entry or from a wake
LocalAcquire(s, t) ==
    LET l == s.task[t].url
        L == AcquireCheck(s.lim[l])
        s1 == SetLim(IF s.task[t].pc = "lwoken" THEN s ELSE Mark(s, t, "lstart"),
                     l, L)
    IN  IF ~L.ev
        THEN [s1 EXCEPT !.task[t].pc = "lwait",
                        !.task[t].held = IF "waits" \in s.gh.rec THEN l ELSE @]
        ELSE LET s2 == [s1 EXCEPT !.task[t].mig = None]
             IN  CASE AcquireOutcome(L) = "migrating" -> CatchMigrating(s2, t)
                   [] AcquireOutcome(L) = "deny" -> Finish(s2, t, "Denied")
                   [] OTHER ->
                        AfterLocalGrant(
                            Mark(SetLim(Granted(s2, l), l, AcquireTake(L)),
                                 t, "local"), t)

\* a loop body that begins at the local acquire
GlobalAcquireSkipped(s, t) == LocalAcquire(s, t)

\* the top of the loop body: GlobalRateLimit.acquire(), from its entry or
\* from a wake, and on with the local acquire
GlobalAcquire(s, t) ==
    LET g == GlobalOf(s.task[t].slot[2])
        G == AcquireCheck(s.lim[g])
        s1 == SetLim(s, g, G)
    IN  IF ~G.ev THEN [s1 EXCEPT !.task[t].pc = "gwait"]
        ELSE CASE AcquireOutcome(G) = "migrating" -> CatchMigrating(s1, t)
               [] AcquireOutcome(G) = "deny" -> Finish(s1, t, "Denied")
               [] OTHER ->
                    LocalAcquire(
                        Mark(SetLim(Granted(s1, g), g, GlobalAcquireTake(G)),
                             t, "global"), t)

(***************************************************************************)
(* The response: lines 650-712 of request().                               *)
(***************************************************************************)
\* history of a slot after a response has been folded in: the bucket the
\* response named, the object the slot was left bound to by a 404, and
\* whether the slot has ever been answered 404
NoteResponse(s0, s, t, r) ==
    LET slot == s.task[t].slot
        rebound == s.routes[slot] # s0.routes[slot]
        s1 == IF rebound
              THEN [s EXCEPT !.gh.gen404[slot] = None,
                             !.task = [u \in Tasks |->
                                 IF s.task[u].slot = slot
                                 THEN [s.task[u] EXCEPT !.after404 = FALSE]
                                 ELSE s.task[u]]]
              ELSE s
        s2 == IF r.status = 404
              THEN [s1 EXCEPT !.gh.gen404[slot] = s.routes[slot]]
              ELSE s1
        s3 == IF "slots" \in s.gh.rec
              THEN [s2 EXCEPT !.gh.lastBucket[slot] = r.bucket]
              ELSE s
    IN  IF "denials" \in s.gh.rec /\ r.status = 404
        THEN [s3 EXCEPT !.gh.got404[slot] = TRUE]
        ELSE s3

\* an update raised out of request(): IncorrectBucket is not caught there
Escapes(s, t) == Finish(s, t, "IncorrectBucket")

\* a table entry that is never written
RegisterNothing(s, b, u) == s

\* a table entry written under the other bucket
RegisterElsewhere(s, b, u) == [s EXCEPT !.buckets[3 - b] = u]

\* line 709: self._buckets[url_rate_limit.bucket] = url_rate_limit
Register(s, b, u) == [s EXCEPT !.buckets[b] = u]

\* lines 681-709: the bucket table after a successful update
Reconcile(s, t, r) ==
    LET u == s.task[t].url
        b == s.lim[u].bucket
        c == IF b = None THEN None ELSE s.buckets[b]
    IN  IF b # None /\ c # None /\ c # u
        THEN LET s1 == [s EXCEPT !.routes[s.task[t].slot] = c]
             IN  IF s.lim[c].bucket = None THEN Finish(s1, t, "ValueError")
                 ELSE LET s2 == SetLim(s1, u, MigrateTo(s1.lim[u], s.lim[c].bucket))
                      IN  IF UpdateRaises(s2.lim[c], r) THEN Escapes(s2, t)
                          ELSE SetLim(s2, c, Update(s2.lim[c], r))
        ELSE IF b # None THEN Register(s, b, u)
        ELSE s

\* a request() without the except IncorrectBucket clause
LocalUpdateUncaught(s, t, r) ==
    LET u == s.task[t].url
    IN  IF UpdateRaises(s.lim[u], r) THEN Escapes(s, t)
        ELSE Reconcile(SetLim(s, u, Update(s.lim[u], r)), t, r)

\* lines 651-679: url_rate_limit.update(response) and its IncorrectBucket
\* handler; raised notes that the handler ran
LocalUpdate(s, t, r) ==
    LET u == s.task[t].url
        slot == s.task[t].slot
        s0 == [SetLim(s, u, UpdateRaised(s.lim[u], r)) EXCEPT
                    !.task[t].raised = "raises" \in s.gh.rec]
    IN  IF UpdateRaises(s.lim[u], r)
        THEN LET c == IF r.bucket = None THEN None ELSE s0.buckets[r.bucket]
             IN  IF c # None
                 THEN LET s1 == [s0 EXCEPT !.task[t].url = c, !.routes[slot] = c]
                      IN  IF UpdateRaises(s1.lim[c], r) THEN Escapes(s1, t)
                          ELSE Reconcile(SetLim(s1, c, Update(s1.lim[c], r)), t, r)
                 ELSE LET s1 == MakeUrlRateLimit(s0, slot)
                          f == s1.routes[slot]
                      IN  IF s1.ovf THEN s1
                          ELSE Reconcile(
                                  SetLim([s1 EXCEPT !.task[t].url = f], f,
                                         Update(NewRateLimit, r)), t, r)
        ELSE Reconcile(SetLim(s, u, Update(s.lim[u], r)), t, r)

\* from the local update to the await of json_or_text
FoldLocal(s, t, r) ==
    LET s1 == LocalUpdate(s, t, r)
        s2 == Mark(NoteResponse(s, s1, t, r), t, "lupdate")
    IN  IF s1.ovf \/ s1.task[t].pc = "done" THEN s2
        ELSE [s2 EXCEPT !.task[t].pc = "decode", !.task[t].resp = NoResp]

\* the response arrives: global_rate_limit.update, which suspends in
\* response.json() on a global 429, then the local update
Respond(s, t, r) ==
    LET g == GlobalOf(s.task[t].slot[2])
        s0 == [s EXCEPT !.task[t].status = r.status,
                        !.task[t].scope = r.scope,
                        !.task[t].raised = FALSE,
                        !.task[t].fresh = TRUE,
                        !.task[t].seen = IF "attempts" \in s.gh.rec
                                        THEN @ \cup {r.status} ELSE @,
                        !.task[t].n429 =
                            IF "dispatch" \in s.gh.rec /\ r.status = 429
                            THEN @ + 1 ELSE @]
    IN  IF r.glob /\ r.status = 429
        THEN LET s1 == SetLim(s0, g, GlobalUpdateHit(s0.lim[g]))
             IN  IF r.scope
                 THEN [s1 EXCEPT !.task[t].pc = "gjson", !.task[t].resp = r]
                 ELSE FoldLocal(Mark(SetLim(s1, g, GlobalUpdateTail(s1.lim[g])),
                                     t, "gupdate"), t, r)
        ELSE FoldLocal(Mark(s0, t, "gupdate"), t, r)

\* history: a global 429 with a retry_after has been processed for the
\* credential a; the requests that run are not later than it
Quiet(s, a, r) ==
    IF "quiet" \in s.gh.rec /\ (r.retry_after # None \/ r.retry_hdr # None)
    THEN [s EXCEPT !.gh.hit[a] = TRUE,
                   !.gh.quiet[a] =
                        ((IF r.retry_after # None THEN r.retry_after
                          ELSE r.retry_hdr) + TimeOffset) * TicksPerSecond,
                   !.task = [u \in Tasks |->
                                IF s.task[u].slot[2] = a
                                THEN [s.task[u] EXCEPT !.late = FALSE]
                                ELSE s.task[u]]]
    ELSE s

\* response.json() has returned inside GlobalRateLimit.update
GlobalJson(s, t) ==
    LET g == GlobalOf(s.task[t].slot[2])
        r == s.task[t].resp
        G == GlobalUpdateTail(GlobalUpdateRetry(s.lim[g], r))
    IN  FoldLocal(Mark(SetLim(Quiet(s, s.task[t].slot[2], r), g, G),
                       t, "gupdate"), t, r)

\* self._dispatch("http_ratelimit", ...): the payload handed to the callback
DispatchArgs(s, t) ==
    LET L == s.lim[s.task[t].url]
    IN  <<L.limit, L.remaining, L.reset_after, L.bucket, s.task[t].scope>>

\* a pipeline that notifies nobody
DispatchNothing(s, t) == s

\* the callback is the caller's; the pipeline's state is not changed by it,
\* the history keeps the payload
Dispatch(s, t) ==
    IF "dispatch" \in s.gh.rec
    THEN [s EXCEPT !.gh.event = DispatchArgs(s, t), !.task[t].ndisp = @ + 1]
    ELSE s

\* asyncio.sleep(1 + retry_count * 2) begins
Sleeps(s, t, pc) ==
    [s EXCEPT !.task[t].pc = pc,
              !.task[t].slept = IF "attempts" \in s.gh.rec
                                THEN Append(@, 1 + s.task[t].retry * 2) ELSE @]

\* a classification that retries whatever is not a success
ClassifyRetryAll(s, t) ==
    IF s.task[t].status < 400
    THEN Finish([s EXCEPT !.task[t].ret = s.task[t].status], t, "returned")
    ELSE Sleeps([s EXCEPT !.task[t].ret = s.task[t].status], t, "sleep")

\* json_or_text has returned: the status is classified (lines 712-758)
Classify(s, t) ==
    LET st == s.task[t].status
        s1 == [Mark(s, t, "classify") EXCEPT !.task[t].ret = st]
    IN  IF st < 400 THEN Finish(s1, t, "returned")
        ELSE IF st \in {500, 502, 504} THEN Sleeps(s1, t, "sleep")
        ELSE IF st = 401 THEN Finish(s1, t, "Unauthorized")
        ELSE IF st = 403 THEN Finish(s1, t, "Forbidden")
        ELSE IF st = 404 THEN Finish(s1, t, "NotFound")
        ELSE IF st = 429 THEN LoopBottom(Dispatch(s1, t), t)
        ELSE IF st >= 500 THEN Finish(s1, t, "ServerError")
        ELSE Finish(s1, t, "HTTPException")

\* except OSError (lines 761-767)
OnOSError(s, t, errno) ==
    IF s.task[t].retry < MaxRetryCount - 1 /\ errno \in {54, 10054}
    THEN Sleeps(s, t, "ossleep")
    ELSE Finish(s, t, "OSError")

\* request() up to its loop (lines 566-602)
Begin(s, t, slot) ==
    LET s1 == IF s.globals[slot[2]] = None
              THEN MakeGlobalRateLimit(s, slot[2]) ELSE s
        s2 == IF s1.routes[slot] = None THEN MakeUrlRateLimit(s1, slot) ELSE s1
    IN  IF s2.ovf THEN s2
        ELSE GlobalAcquire(
                [s2 EXCEPT !.task[t] =
                    [IdleTask EXCEPT !.slot = slot, !.url = s2.routes[slot],
                                     !.late = s2.gh.hit[slot[2]],
                                     !.after404 = s2.gh.gen404[slot] # None]], t)

\* the reset task has slept its time
FireReset(s, l) ==
    SetLim([s EXCEPT !.gh.grants[l] = 0, !.gh.last = <<None, NoResp>>,
                     !.gh.fold = <<>>,
                     !.task = [t \in Tasks |->
                                IF s.task[t].held = l
                                THEN [s.task[t] EXCEPT !.held = None]
                                ELSE s.task[t]]],
           l, ResetRemaining(s.lim[l]))

\* the clock advances by one tick
Advance(s) ==
    [s EXCEPT !.lim = [l \in LimIds |->
                        IF Resetting(s.lim[l])
                        THEN [s.lim[l] EXCEPT !.left = @ - 1] ELSE s.lim[l]],
              !.gh.recent = [a \in 0..(TicksPerSecond - 1) |->
                                IF a = 0 THEN 0 ELSE s.gh.recent[a - 1]],
              !.gh.quiet = [a \in Auths |->
                                IF s.gh.quiet[a] > 0 THEN s.gh.quiet[a] - 1 ELSE 0],
              !.gh.fold = <<>>]

(***************************************************************************)
(* DispatchFramework: the temporary listeners of one event.  A wait_for    *)
(* call is known by its number; its WaitForCheck and its future are one    *)
(* object each.  A step is a whole dispatch() call, which never suspends,  *)
(* or a stretch of wait_for between two suspensions.                       *)
(***************************************************************************)
Waiters == 1..MaxWaiters

\* what listener.check(*args, **kwargs) does in one dispatch
Checks == {"true", "false", "raise"}

\* _discover_listeners, no wait_for call made yet.  future is the state of
\* the asyncio future of each call ("none" before it is created), pc the
\* point wait_for is at, sets the number of times a dispatch completed the
\* future, err that the running dispatch has raised, raised that some
\* dispatch call raised InvalidStateError
NewFramework ==
    [temp |-> {},
     future |-> [w \in Waiters |-> "none"],
     pc |-> [w \in Waiters |-> "idle"],
     sets |-> [w \in Waiters |-> 0],
     err |-> FALSE,
     raised |-> FALSE,
     dispatched |-> 0]

\* Future.set_result / Future.set_exception: InvalidStateError unless the
\* future is pending
SetFuture(E, w, st) ==
    IF E.future[w] = "pending"
    THEN [E EXCEPT !.future[w] = st, !.sets[w] = @ + 1]
    ELSE [E EXCEPT !.err = TRUE]

\* lines 123-140: the body of the loop of dispatch for the listener w
DispatchListener(E, w, check) ==
    IF E.future[w] = "cancelled" THEN [E EXCEPT !.temp = @ \ {w}]
    ELSE CASE check = "raise" -> SetFuture(E, w, "exception")
           [] check = "true" ->
                LET E1 == SetFuture(E, w, "result")
                IN  IF E1.err THEN E1 ELSE [E1 EXCEPT !.temp = @ \ {w}]
           [] OTHER -> E

RECURSIVE DispatchTemporary(_, _, _)

\* lines 120-140: the loop over the copy of the set, in the order it yields
DispatchTemporary(E, order, check) ==
    IF order = <<>> \/ E.err THEN E
    ELSE DispatchTemporary(DispatchListener(E, Head(order), check[Head(order)]),
                           Tail(order), check)

\* the orders in which a set may be iterated
Orders(S) ==
    {o \in [1..Cardinality(S) -> S] : \A i, j \in 1..Cardinality(S) :
                                            o[i] = o[j] => i = j}

(***************************************************************************)
(* The state machine.                                                      *)
(***************************************************************************)
\* statuses after which request() makes another attempt
Retried(r) == r.status \in {429, 500, 502, 504}

\* the next state is the world s
Takes(s) ==
    /\ ~s.ovf
    /\ lim' = s.lim
    /\ nlim' = s.nlim
    /\ globals' = s.globals
    /\ routes' = s.routes
    /\ buckets' = s.buckets
    /\ task' = s.task
    /\ gh' = s.gh
    /\ events' = events

\* the history of a run that has not begun; rec names what is recorded
NewHistory(rec) ==
    [rec |-> rec, calls |-> 0, faults |-> 0, flags |-> {},
     grants |-> [l \in LimIds |-> 0],
     recent |-> [a \in 0..(TicksPerSecond - 1) |-> 0],
     gen404 |-> [sl \in Slots |-> None],
     lastBucket |-> [sl \in Slots |-> None],
     got404 |-> [sl \in Slots |-> FALSE],
     last |-> <<None, NoResp>>,
     event |-> <<>>,
     hit |-> [a \in Auths |-> FALSE],
     quiet |-> [a \in Auths |-> 0],
     prep |-> <<>>,
     fold |-> <<>>]

\* HTTPHandler.__init__: no RateLimit exists, no request runs
InitWith(rec) ==
    /\ lim = [l \in LimIds |-> NewRateLimit]
    /\ nlim = 0
    /\ globals = [a \in Auths |-> None]
    /\ routes = [sl \in Slots |-> None]
    /\ buckets = [b \in Buckets |-> None]
    /\ task = [t \in Tasks |-> IdleTask]
    /\ gh = NewHistory(rec)
    /\ events = NewFramework

\* a caller awaits request(route): it runs to its first suspension
Request(t, slot, calls) ==
    /\ task[t].pc = "idle"
    /\ \A u \in Tasks : u < t => task[u].pc # "idle"
    /\ gh.calls < calls
    /\ Takes(Begin([World EXCEPT !.gh.calls = @ + 1], t, slot))

\* the caller of a finished request() resumes with its result or exception
Return(t) ==
    /\ task[t].pc = "done"
    /\ Takes([World EXCEPT !.task[t] = IdleTask])

\* a waiter of the global limiter's event runs again
GlobalWake(t) ==
    /\ task[t].pc = "gwoken"
    /\ Takes(GlobalAcquire(World, t))

\* a waiter of a url limiter's event runs again
LocalWake(t) ==
    /\ task[t].pc = "lwoken"
    /\ Takes(LocalAcquire(World, t))

\* the HTTPS request completes with response r
Response(t, r, faults) ==
    /\ task[t].pc = "http"
    /\ Retried(r) => gh.faults < faults
    /\ Takes(Respond([World EXCEPT !.gh.faults =
                        IF Retried(r) THEN @ + 1 ELSE @], t, r))

\* the HTTPS request raises OSError
ConnectionError(t, errno, faults) ==
    /\ task[t].pc = "http"
    /\ gh.faults < faults
    /\ Takes(OnOSError([World EXCEPT !.gh.faults = @ + 1], t, errno))

\* response.json() completes inside the global update
JsonRead(t) ==
    /\ task[t].pc = "gjson"
    /\ Takes(GlobalJson(World, t))

\* json_or_text completes
BodyRead(t) ==
    /\ task[t].pc = "decode"
    /\ Takes(Classify(World, t))

\* the sleep after a 500, 502 or 504 is over
BackoffDone(t) ==
    /\ task[t].pc = "sleep"
    /\ Takes(LoopBottom(World, t))

\* the sleep after a connection reset is over: continue
ReconnectDone(t) ==
    /\ task[t].pc = "ossleep"
    /\ Takes(NextIter(World, t))

\* a reset task runs reset_remaining; with a clock, when its time is up
ResetTimer(l, timed) ==
    /\ Resetting(lim[l])
    /\ timed => lim[l].left = 0
    /\ Takes(FireReset(World, l))

\* one tick passes; reset tasks that are due run first
Tick ==
    /\ \A l \in LimIds : Resetting(lim[l]) => lim[l].left > 0
    /\ Takes(Advance(World))

\* the responses of a server that is not failing
OkResponses ==
    {NoHeaders(200), NoHeaders(404)}
        \cup {Headers(st, b, 1, 0, 1) : st \in {200, 404}, b \in Buckets}

\* the program without connection faults: calls to request(), the server's
\* answers from resps (at most faults of them retried), the reset tasks
Serve(calls, slots, resps, faults) ==
    \/ \E t \in Tasks, slot \in slots : Request(t, slot, calls)
    \/ \E t \in Tasks : Return(t)
    \/ \E t \in Tasks : GlobalWake(t)
    \/ \E t \in Tasks : LocalWake(t)
    \/ \E t \in Tasks, r \in resps : Response(t, r, faults)
    \/ \E t \in Tasks : BodyRead(t)
    \/ \E l \in LimIds : ResetTimer(l, FALSE)

Init == InitWith({"slots"})

Next == Serve(MaxCalls, Slots, OkResponses, 0)

Spec == Init /\ [][Next]_vars

\* few calls, every local limit 1, the grants of each limiter counted
GrantResponses == {NoHeaders(200)} \cup {Headers(200, b, 1, 0, 1) : b \in Buckets}

InitGrants == InitWith({"grants"})

NextGrants == Serve(MaxCalls, Slots, GrantResponses, 0)

SpecGrants == InitGrants /\ [][NextGrants]_vars

(***************************************************************************)
(* C1: for every limiter, the successful acquire() calls since its reset   *)
(* task last completed (or since its creation) number at most its limit.   *)
(***************************************************************************)
C1_GrantsWithinLimit ==
    \A l \in LimIds : gh.grants[l] <= lim[l].limit

\* one route under the clock: time passes in ticks, a reset task runs when
\* its sleep is over, the global acquisitions of the last second are counted
InitClock == InitWith({"window"})

NextClock ==
    \/ \E t \in Tasks : Request(t, <<"r1", 1>>, ClockCalls)
    \/ \E t \in Tasks : Return(t)
    \/ \E t \in Tasks : GlobalWake(t)
    \/ \E t \in Tasks : LocalWake(t)
    \/ \E t \in Tasks : Response(t, NoHeaders(200), 0)
    \/ \E t \in Tasks : BodyRead(t)
    \/ \E l \in LimIds : ResetTimer(l, TRUE)
    \/ Tick

SpecClock == InitClock /\ [][NextClock]_vars

RECURSIVE SumRecent(_)
\* global acquisitions of the last a + 1 ticks
SumRecent(a) == gh.recent[a] + (IF a = 0 THEN 0 ELSE SumRecent(a - 1))

(***************************************************************************)
(* C2: the successful acquisitions of the credential's global limiter in   *)
(* any window of one second (TicksPerSecond consecutive ticks) number at   *)
(* most default_max_per_second + time_offset.                              *)
(***************************************************************************)
C2_GlobalPerSecond ==
    SumRecent(TicksPerSecond - 1) <= DefaultMaxPerSecond + TimeOffset

\* one route whose server answers 429 often enough to exhaust the loop
RetryResponses == {NoHeaders(429), NoHeaders(200), Headers(200, 1, 1, 0, 1)}

InitRetry == InitWith({})

NextRetry == Serve(MaxCalls, {<<"r1", 1>>}, RetryResponses, RetryFaults)

SpecRetry == InitRetry /\ [][NextRetry]_vars

(***************************************************************************)
(* C5: a request() that returns normally returns the body of a response    *)
(* of status below 400 that it received.                                   *)
(***************************************************************************)
C5_ReturnsOnlySuccess ==
    \A t \in Tasks :
        task[t].pc = "done" /\ task[t].out = "returned"
            => task[t].ret \in 1..399

\* a failing server and network: every kind of answer and every step
FaultResponses ==
    {NoHeaders(st) : st \in {200, 404, 502}}
        \cup {Headers(200, b, l, r, 1) : b \in Buckets, l \in 1..2, r \in 0..2}
        \cup {Headers(429, 1, 1, 0, 2)}
        \cup {Global429(1, None), Global429(None, 2),
              [NoHeaders(429) EXCEPT !.glob = TRUE]}

\* the server reports a remaining count within the limit it reports
WellFormed(r) == r.limit = None \/ r.remaining <= r.limit

InitFaults == InitWith({})

NextFaults ==
    \/ Serve(FaultCalls, Slots, {r \in FaultResponses : WellFormed(r)}, MaxFaults)
    \/ \E t \in Tasks, errno \in {54, 32} : ConnectionError(t, errno, MaxFaults)
    \/ \E t \in Tasks : JsonRead(t)
    \/ \E t \in Tasks : BackoffDone(t)
    \/ \E t \in Tasks : ReconnectDone(t)

SpecFaults == InitFaults /\ [][NextFaults]_vars

(***************************************************************************)
(* C3: in every reachable state every limiter has 0 <= remaining <= limit, *)
(* also the canonical limiter on which a migrating request's response is   *)
(* applied again.                                                          *)
(***************************************************************************)
C3_RemainingInRange ==
    \A l \in LimIds : 0 <= lim[l].remaining /\ lim[l].remaining <= lim[l].limit

\* after a migration the canonical limiter of the bucket is used up
C3_Witness ==
    \E l \in 1..nlim :
        /\ lim[l].migrating # None
        /\ buckets[lim[l].migrating] # None
        /\ lim[buckets[lim[l].migrating]].remaining = 0
        /\ lim[buckets[lim[l].migrating]].limit = 2

\* requests racing on their routes: one bucket, answers 200 and 404
RaceResponses ==
    {NoHeaders(200), Headers(200, 1, 1, 0, 1), Headers(404, 1, 1, 0, 1)}

InitRace == InitWith({"slots"})

NextRace == Serve(RaceCalls, Slots, RaceResponses, 0)

SpecRace == InitRace /\ [][NextRace]_vars

(***************************************************************************)
(* C4: a request() made on a route slot after a 404 response on that slot, *)
(* while the slot is still bound to the same limiter, sends no HTTPS       *)
(* request and fails at the local acquire.                                 *)
(***************************************************************************)
C4_DeniedAfter404 ==
    \A t \in Tasks :
        task[t].after404 =>
            /\ ~task[t].sent
            /\ task[t].pc = "done" => task[t].out = "Denied"

(***************************************************************************)
(* C8: two distinct route slots whose latest responses carried the same    *)
(* X-RateLimit-Bucket value are both bound to buckets[that value].         *)
(***************************************************************************)
C8_SameBucketSameLimiter ==
    \A s1 \in Slots, s2 \in Slots :
        /\ s1 # s2
        /\ gh.lastBucket[s1] # None
        /\ gh.lastBucket[s1] = gh.lastBucket[s2]
        => /\ routes[s1] = buckets[gh.lastBucket[s1]]
           /\ routes[s2] = buckets[gh.lastBucket[s1]]

\* the local RateLimit objects that exist
Made == 1..nlim

(***************************************************************************)
(* C6: for each bucket name at most one limiter that is not demoted has    *)
(* that name.                                                              *)
(***************************************************************************)
C6_CanonicalUnique ==
    \A l1 \in Made, l2 \in Made :
        /\ lim[l1].bucket # None
        /\ lim[l1].bucket = lim[l2].bucket
        /\ lim[l1].migrating = None
        /\ lim[l2].migrating = None
        => l1 = l2

\* a demoted limiter and the canonical one carry the same bucket name
C6_Witness ==
    \E l1 \in Made, l2 \in Made :
        /\ lim[l1].bucket # None
        /\ lim[l1].bucket = lim[l2].bucket
        /\ lim[l1].migrating # None
        /\ lim[l2].migrating = None
        /\ buckets[lim[l1].bucket] = l2

(***************************************************************************)
(* C7: every limiter stored in the routes table whose bucket is known is   *)
(* the limiter stored in buckets under that name, or is demoted.           *)
(***************************************************************************)
C7_RoutesCanonicalOrDemoted ==
    \A sl \in Slots :
        routes[sl] # None /\ lim[routes[sl]].bucket # None
            => \/ buckets[lim[routes[sl]].bucket] = routes[sl]
               \/ lim[routes[sl]].migrating # None

\* two slots have been brought to the canonical limiter of one bucket
C7_Witness ==
    \E s1 \in Slots, s2 \in Slots :
        /\ s1 # s2
        /\ routes[s1] # None
        /\ routes[s1] = routes[s2]
        /\ lim[routes[s1]].bucket # None
        /\ buckets[lim[routes[s1]].bucket] = routes[s1]
        /\ \E l \in Made : lim[l].migrating = lim[routes[s1]].bucket

C10_NoGrantOnDemoted ==
    /\ "grant_on_demoted" \notin gh.flags
    /\ \A l \in Made :
          lim[l].migrating # None =>
              /\ lim[l].ev
              /\ lim[l].remaining = lim[l].limit
              /\ AcquireOutcome(lim[l]) = "migrating"

\* a waiter has been refused by a demoted limiter, whose tokens are all there
C10_Witness ==
    \E t \in Tasks :
        /\ task[t].mig # None
        /\ task[t].pc # "done"
        /\ lim[task[t].mig].migrating # None
        /\ lim[task[t].mig].remaining = lim[task[t].mig].limit

\* the created RateLimit objects
Exists(l) ==
    IF l \in GlobalIds THEN \E a \in Auths : globals[a] = l ELSE l <= nlim

\* one route whose server answers with global 429s of two retry_after values
GlobalResponses == {Global429(2, None), Global429(1, 2), NoHeaders(200)}

InitGlobal == InitWith({})

NextGlobal ==
    \/ Serve(FaultCalls, {<<"r1", 1>>}, GlobalResponses, GlobalFaults)
    \/ \E t \in Tasks : JsonRead(t)

SpecGlobal == InitGlobal /\ [][NextGlobal]_vars

(***************************************************************************)
(* C11: no step other than the completion of a limiter's reset task lowers *)
(* the limiter's reset_after; a global 429 that carries a smaller          *)
(* retry_after than the armed one is no exception.                         *)
(***************************************************************************)
C11_ResetAfterNeverLowered ==
    [][\A l \in LimIds :
          Exists(l) /\ ~(Resetting(lim[l]) /\ ~Resetting(lim'[l]))
              => lim'[l].reset_after >= lim[l].reset_after]_vars

(***************************************************************************)
(* C12: a limiter's remaining is raised by no step other than the          *)
(* completion of its reset task: not by an update (the first one, one      *)
(* without headers, one with a higher X-RateLimit-Remaining) and not by    *)
(* migrate_to.                                                             *)
(***************************************************************************)
C12_RemainingOnlyRaisedByReset ==
    [][\A l \in LimIds :
          Exists(l) /\ lim'[l].remaining > lim[l].remaining
              => Resetting(lim[l]) /\ ~Resetting(lim'[l])]_vars

(***************************************************************************)
(* update() as a function of the limiter and the response: one url limiter *)
(* and the global limiter of one credential, brought to their states by    *)
(* acquisitions, updates, the clock and their reset tasks.  last holds the *)
(* limiter and the response of the latest update, as long as nothing but   *)
(* the clock has touched the limiter since.                                *)
(***************************************************************************)
UpdateResponses ==
    {NoHeaders(200), NoHeaders(404)}
        \cup {Headers(200, 1, l, r, ra) : l \in 1..2, r \in 0..2, ra \in 1..2}
        \cup {Global429(2, None), Global429(None, 1),
              [NoHeaders(429) EXCEPT !.glob = TRUE]}

InitUpdate ==
    /\ buckets = [b \in Buckets |-> None]
    /\ task = [t \in Tasks |-> IdleTask]
    /\ gh = NewHistory({})
    /\ events = NewFramework
    /\ lim = [l \in LimIds |->
                IF l \in GlobalIds THEN NewGlobalRateLimit(0 - l) ELSE NewRateLimit]
    /\ nlim = 1
    /\ routes = [sl \in Slots |-> IF sl = <<"r1", 1>> THEN 1 ELSE None]
    /\ globals = [a \in Auths |-> GlobalOf(a)]

\* acquire() on the limiter l: a token is taken, or the caller has to wait
Acquire(l) ==
    LET L == AcquireCheck(lim[l])
        s == [World EXCEPT !.gh.last = <<None, NoResp>>, !.gh.fold = <<>>]
    IN  /\ Exists(l)
        /\ Takes(SetLim(s, l,
                IF ~L.ev \/ AcquireOutcome(L) # "ok" THEN L
                ELSE IF l \in GlobalIds THEN GlobalAcquireTake(L)
                ELSE AcquireTake(L)))

\* update(response) on the limiter l
Observe(l, r) ==
    /\ Exists(l)
    /\ l \in LocalIds => ~UpdateRaises(lim[l], r)
    /\ Takes(SetLim([World EXCEPT !.gh.last = <<l, r>>], l,
                    IF l \in GlobalIds THEN GlobalUpdate(lim[l], r)
                    ELSE Update(lim[l], r)))

NextUpdate ==
    \/ \E l \in LimIds : Acquire(l)
    \/ \E l \in LimIds, r \in {x \in UpdateResponses : WellFormed(x)} :
            Observe(l, r)
    \/ \E l \in LimIds : ResetTimer(l, TRUE)
    \/ Tick

SpecUpdate == InitUpdate /\ [][NextUpdate]_vars

\* the limiter of the latest update, were the same response applied again
UpdatedAgain ==
    LET l == gh.last[1]
        r == gh.last[2]
    IN  IF l \in GlobalIds THEN GlobalUpdate(lim[l], r) ELSE Update(lim[l], r)

(***************************************************************************)
(* C13: update() applied a second time with the same response, nothing but *)
(* time having passed since the first, leaves the limiter as it is, its    *)
(* armed reset task included.                                              *)
(***************************************************************************)
C13_UpdateIdempotent ==
    gh.last[1] # None => UpdatedAgain = lim[gh.last[1]]

\* one route whose server answers 502, with or without rate-limit headers,
\* as often as one request() can retry
BackoffResponses == {NoHeaders(502), Headers(502, 1, 1, 0, 1), NoHeaders(200)}

InitBackoff == InitWith({"attempts"})

NextBackoff ==
    \/ Serve(FaultCalls, {<<"r1", 1>>}, BackoffResponses, BackoffFaults)
    \/ \E t \in Tasks : BackoffDone(t)

SpecBackoff == InitBackoff /\ [][NextBackoff]_vars

(***************************************************************************)
(* C14: a request() that has ended and whose every attempt was answered    *)
(* 502 has sent max_retry_count (5) HTTPS requests, has slept 1, 3, 5, 7   *)
(* and 9 seconds, in that order, and has raised DiscordServerError.        *)
(***************************************************************************)
C14_FiveAttemptsOn502 ==
    \A t \in Tasks :
        task[t].pc = "done" /\ task[t].seen = {502}
            => /\ task[t].sends = MaxRetryCount
               /\ task[t].slept = [i \in 1..MaxRetryCount |-> 2 * i - 1]
               /\ task[t].out = "ServerError"

(***************************************************************************)
(* C15: a request() that has raised DiscordServerError or HTTPException    *)
(* has received a response in its final iteration, and the exception is    *)
(* DiscordServerError exactly when the status of that response is 500 or   *)
(* more.                                                                   *)
(***************************************************************************)
C15_ExhaustionCarriesLastResponse ==
    \A t \in Tasks :
        task[t].pc = "done" /\ task[t].out \in {"ServerError", "HTTPException"}
            => /\ task[t].fresh
               /\ task[t].out = "ServerError" <=> task[t].status >= 500

\* one route of a server that refuses: every status that request() does
\* not retry, with and without rate-limit headers, and a 429 now and then
StatusResponses ==
    {NoHeaders(st) : st \in {200, 400, 401, 403, 404, 429, 503}}
        \cup {Headers(403, 1, 1, 0, 1)}

InitStatus == InitWith({})

NextStatus == Serve(MaxCalls, {<<"r1", 1>>}, StatusResponses, MaxFaults)

SpecStatus == InitStatus /\ [][NextStatus]_vars

(***************************************************************************)
(* C16: once a request() has received a response of status 400 or more     *)
(* other than 429, 500, 502 and 504, it only reads the body and ends, with *)
(* no further acquisition, HTTPS request or sleep; it ends by raising      *)
(* Unauthorized for 401, Forbidden for 403, NotFound for 404,              *)
(* DiscordServerError for any other status of 500 or more, HTTPException   *)
(* for the rest.                                                           *)
(***************************************************************************)
C16_StatusRaisesAtOnce ==
    \A t \in Tasks :
        LET st == task[t].status
        IN  st >= 400 /\ st \notin {429, 500, 502, 504}
                => /\ task[t].pc \in {"decode", "done"}
                   /\ task[t].pc = "done"
                        => task[t].out =
                            CASE st = 401 -> "Unauthorized"
                              [] st = 403 -> "Forbidden"
                              [] st = 404 -> "NotFound"
                              [] st >= 500 -> "ServerError"
                              [] OTHER -> "HTTPException"

\* a request() answered 429 and then 503 has raised DiscordServerError, and
\* another one answered 403 has raised Forbidden
C16_Witness ==
    \E t, u \in Tasks :
        /\ task[t].pc = "done" /\ task[t].status = 503
        /\ task[t].out = "ServerError" /\ gh.faults = 1
        /\ task[u].pc = "done" /\ task[u].status = 403
        /\ task[u].out = "Forbidden"

\* one route whose server answers 429: of the route, with and without
\* rate-limit headers, and of the global scope
DispatchResponses ==
    {NoHeaders(429), Headers(429, 1, 1, 0, 1), Global429(1, None),
     NoHeaders(200), Headers(200, 1, 1, 0, 1)}

InitDispatch == InitWith({"dispatch"})

NextDispatch ==
    \/ Serve(FaultCalls, {<<"r1", 1>>}, DispatchResponses, DispatchFaults)
    \/ \E t \in Tasks : JsonRead(t)

SpecDispatch == InitDispatch /\ [][NextDispatch]_vars

(***************************************************************************)
(* C17: every 429 a request() receives is dispatched as http_ratelimit     *)
(* exactly once, when its body has been read (both limiters are updated by *)
(* then) and before the request() acquires or sends again; the payload is  *)
(* the limit, remaining, reset_after and bucket that the request's url     *)
(* limiter has at that moment, and the X-RateLimit-Scope of the response;  *)
(* no sleep precedes the retry.                                            *)
(***************************************************************************)
C17_OneDispatchPer429 ==
    [][\A t \in Tasks :
          /\ task'[t].ndisp =
                task'[t].n429 - (IF task'[t].pc \in {"gjson", "decode"}
                                    /\ task'[t].status = 429 THEN 1 ELSE 0)
          /\ task'[t].pc \in {"sleep", "ossleep"} => task'[t].status # 429
          /\ task'[t].ndisp = task[t].ndisp + 1
                => /\ task[t].pc = "decode"
                   /\ gh'.event = <<lim[task[t].url].limit,
                                    lim[task[t].url].remaining,
                                    lim[task[t].url].reset_after,
                                    lim[task[t].url].bucket,
                                    task[t].scope>>]_vars

\* a request() sends its third attempt, two 429s dispatched, the last one
\* of the global scope
C17_Witness ==
    \E t \in Tasks :
        /\ task[t].pc = "http"
        /\ task[t].ndisp = 2
        /\ task[t].retry = 2
        /\ gh.event[5]

(***************************************************************************)
(* C18: when GlobalRateLimit.update has processed a 429 of the global      *)
(* scope whose body carries retry_after = r, the global limiter has        *)
(* remaining = 0, reset_after = r + time_offset, its event clear and its   *)
(* reset task armed to sleep r + time_offset from then; the body's         *)
(* retry_after wins over the Retry-After header.                           *)
(***************************************************************************)
C18_GlobalUpdateSetsWindow ==
    [][\A t \in Tasks :
          task[t].pc = "gjson" /\ task'[t].pc # "gjson"
              /\ task[t].resp.retry_after # None
          => LET G == lim'[GlobalOf(task[t].slot[2])]
                 ra == task[t].resp.retry_after + TimeOffset
             IN  /\ G.remaining = 0
                 /\ G.reset_after = ra
                 /\ ~G.ev
                 /\ G.timer = ra
                 /\ G.left = ra * TicksPerSecond]_vars

\* two routes of one credential under the clock; the server answers with a
\* global 429 whose body says retry_after = 2
QuietResponses == {Global429(2, None), NoHeaders(200)}

InitQuiet == InitWith({"quiet", "dispatch"})

NextQuiet ==
    \/ \E t \in Tasks, slot \in Slots : Request(t, slot, MaxCalls)
    \/ \E t \in Tasks : Return(t)
    \/ \E t \in Tasks : GlobalWake(t)
    \/ \E t \in Tasks : LocalWake(t)
    \/ \E t \in Tasks, r \in QuietResponses : Response(t, r, MaxFaults)
    \/ \E t \in Tasks : JsonRead(t)
    \/ \E t \in Tasks : BodyRead(t)
    \/ \E l \in LimIds : ResetTimer(l, TRUE)
    \/ Tick

SpecQuiet == InitQuiet /\ [][NextQuiet]_vars

InitBurst == InitWith({"waits"})

NextBurst == Serve(MaxCalls, {<<"r1", 1>>}, GrantResponses, 0)

SpecBurst == InitBurst /\ [][NextBurst]_vars

(***************************************************************************)
(* C20: of the requests that run at the same time on a route whose limiter *)
(* has limit N and remaining N, N send before the limiter's reset task     *)
(* completes; each of the others, which had to wait in acquire(), sends on *)
(* that limiter only after its reset task has completed.                   *)
(***************************************************************************)
C20_WaitersSendAfterReset ==
    \A t \in Tasks : task[t].pc = "http" => task[t].held # task[t].url

\* one caller that awaits each request() before it makes the next, on one
\* route; the server counts the requests of the bucket down
HappyResponse == Headers(200, 1, HappyLimit, HappyLimit - gh.calls, 1)

InitHappy == InitWith({})

NextHappy ==
    \/ Request(1, <<"r1", 1>>, HappyCalls)
    \/ Return(1)
    \/ GlobalWake(1)
    \/ Response(1, HappyResponse, 0)
    \/ BodyRead(1)
    \/ \E l \in LimIds : ResetTimer(l, TRUE)
    \/ Tick

SpecHappy == InitHappy /\ [][NextHappy]_vars

(***************************************************************************)
(* C21: of requests made one after the other on a fresh route, whose       *)
(* responses carry one bucket, limit = L, reset-after = 1 and remaining =  *)
(* L - 1, L - 2, ... in turn, each returns its body, and right after the   *)
(* k-th response has been folded in, the route's limiter has remaining =   *)
(* L - k and is the entry of the bucket in the bucket table, whether or    *)
(* not reset tasks have fired in between.                                  *)
(***************************************************************************)
C21_SequentialHappyPath ==
    [][/\ task[1].pc = "http" /\ task'[1].pc # "http"
            => /\ task'[1].pc = "decode"
               /\ lim'[routes'[<<"r1", 1>>]].remaining = HappyLimit - gh.calls
               /\ lim'[routes'[<<"r1", 1>>]].limit = HappyLimit
               /\ buckets'[1] = routes'[<<"r1", 1>>]
       /\ task'[1].pc = "done"
            => task'[1].out = "returned" /\ task'[1].ret = 200]_vars

\* the third response has just been folded in
C21_Witness ==
    /\ gh.calls = 3
    /\ task[1].pc = "decode"
    /\ lim[routes[<<"r1", 1>>]].remaining = 2
    /\ buckets[1] = routes[<<"r1", 1>>]

(***************************************************************************)
(* The credential of a request as a function of the handler's default     *)
(* credential, the Authorization entry of the caller's headers and the     *)
(* auth argument of request(); None stands for an absent entry, an absent  *)
(* argument and a default that is None or empty.                           *)
(***************************************************************************)
Creds == 1..MaxCred
MaybeCred == {None} \cup Creds

\* _make_headers: the Authorization entry of the headers that are sent
MakeHeaders(header, auth, default) ==
    IF header # None THEN header
    ELSE IF default # None THEN (IF auth = None THEN default ELSE auth)
    ELSE None

\* a handler constructed with some default credential
InitAuth ==
    /\ InitWith({})!1 /\ InitWith({})!2 /\ InitWith({})!3
    /\ InitWith({})!4 /\ InitWith({})!5 /\ InitWith({})!6
    /\ InitWith({})!8
    /\ \E d \in MaybeCred :
            gh = [NewHistory({}) EXCEPT !.prep = [default |-> d]]

\* request() up to the limiter lookup: headers is what is sent, key is the
\* auth the global and the url limiter are looked up and stored under
Prepare(header, auth) ==
    LET headers == MakeHeaders(header, auth, gh.prep.default)
    IN  /\ gh' = [gh EXCEPT !.calls = 1,
                            !.prep = [default |-> gh.prep.default,
                                      header |-> header, auth |-> auth,
                                      headers |-> headers, key |-> headers]]
        /\ UNCHANGED <<lim, nlim, globals, routes, buckets, task, events>>

NextAuth == \E header \in MaybeCred, auth \in MaybeCred : Prepare(header, auth)

SpecAuth == InitAuth /\ [][NextAuth]_vars

(***************************************************************************)
(* C22: the credential of a request, sent as Authorization and used as the *)
(* key of its limiters, is the auth argument when one is given, otherwise  *)
(* the Authorization entry of the caller's headers, otherwise the default  *)
(* credential, for every combination of the three being present or absent. *)
(***************************************************************************)
C22_CredentialPrecedence ==
    gh.calls = 1 =>
        LET p == gh.prep
            claimed == IF p.auth # None THEN p.auth
                       ELSE IF p.header # None THEN p.header
                       ELSE p.default
        IN  p.headers = claimed /\ p.key = claimed

(***************************************************************************)
(* Route objects and the key their url limiter is stored under.  A major   *)
(* parameter that was not passed to Route() is None.                       *)
(***************************************************************************)
Snowflakes == {None} \cup 1..MaxSnowflake

\* Route.__init__
NewRoute(method, path, channel_id, guild_id, webhook_id, webhook_token) ==
    [method |-> method, path |-> path,
     channel_id |-> channel_id, guild_id |-> guild_id,
     webhook_id |-> webhook_id, webhook_token |-> webhook_token]

\* Route.bucket: the three values the string is formatted from
RouteBucket(route) == <<route.channel_id, route.guild_id, route.path>>

\* the key of _url_rate_limits: (method, route.bucket, auth)
RouteKey(route, auth) == <<route.method, RouteBucket(route), auth>>

InitRoute == InitWith({})

\* the caller builds one more Route
MakeRoute(route) ==
    /\ Len(gh.prep) < 2
    /\ gh' = [gh EXCEPT !.prep = Append(@, route)]
    /\ UNCHANGED <<lim, nlim, globals, routes, buckets, task, events>>

NextRoute ==
    \E path \in Routes, c \in Snowflakes, g \in Snowflakes,
       w \in Snowflakes, k \in Snowflakes :
        MakeRoute(NewRoute("GET", path, c, g, w, k))

SpecRoute == InitRoute /\ [][NextRoute]_vars

\* the major parameters whose values differ between two routes
MajorsApart(x, y) ==
    {m \in {"channel_id", "guild_id", "webhook_id", "webhook_token"} :
        x[m] # y[m]}

(***************************************************************************)
(* C23: two routes of one method and one path template that differ in the  *)
(* value of any one of the major parameters channel_id, guild_id,          *)
(* webhook_id and webhook_token have different route keys under one        *)
(* credential, and so different slots of the url limiter table.            *)
(***************************************************************************)
C23_MajorParamsInRouteKey ==
    Len(gh.prep) = 2 =>
        LET x == gh.prep[1]
            y == gh.prep[2]
        IN  (x.method = y.method /\ x.path = y.path /\ MajorsApart(x, y) # {})
                => \A a \in Auths : RouteKey(x, a) # RouteKey(y, a)

\* one route whose server answers 502 and names now one bucket, now the
\* other, so that a response rebinds the slot under a request that waits
RebindResponses == {Headers(502, b, 1, 0, 1) : b \in Buckets}

InitRebind == InitWith({"rebinds"})

NextRebind ==
    \/ Serve(FaultCalls, {<<"r1", 1>>}, RebindResponses, RebindFaults)
    \/ \E t \in Tasks : BackoffDone(t)

SpecRebind == InitRebind /\ [][NextRebind]_vars

\* request() has ended because its for loop ran out of retry_count values
Exhausted(t) ==
    /\ task[t].pc = "done"
    /\ \/ task[t].out = "returned" /\ task[t].ret = None
       \/ task[t].out \in {"ServerError", "HTTPException"} /\ Retried(task[t])

(***************************************************************************)
(* C24: an iteration that ends because the route slot was found rebound to *)
(* another limiter does not use up one of the MaxRetryCount attempts: a    *)
(* request() whose loop has run out has gone through MaxRetryCount         *)
(* iterations besides the ones that ended in a rebind.                     *)
(***************************************************************************)
C24_RebindKeepsAttempt ==
    \A t \in Tasks :
        Exhausted(t) => (task[t].retry + 1) - task[t].rebinds >= MaxRetryCount

(***************************************************************************)
(* update() of one url limiter and of one global limiter with every kind   *)
(* of response, the limiters brought to their states by acquisitions,      *)
(* earlier updates, the clock and their reset tasks.  fold holds the       *)
(* latest update: the limiter, the response, whether it raised, and the    *)
(* limiter's fields as they were when update was called.                   *)
(***************************************************************************)
FoldResponses ==
    {NoHeaders(200), NoHeaders(404)}
        \cup {Headers(200, b, 2, r, ra) : b \in Buckets, r \in 0..2, ra \in 1..2}
        \cup {Headers(404, b, 2, 0, 1) : b \in Buckets}
        \cup {Global429(2, None), [NoHeaders(200) EXCEPT !.glob = TRUE],
              [Headers(200, 1, 2, 1, 2) EXCEPT !.glob = TRUE]}

InitFold == InitUpdate

\* update(response) on the limiter l, raising IncorrectBucket or not
Fold(l, r) ==
    LET raised == l \in LocalIds /\ UpdateRaises(lim[l], r)
        s == [World EXCEPT !.gh.last = <<None, NoResp>>,
                           !.gh.fold = [l |-> l, r |-> r, was |-> lim[l],
                                        raised |-> raised]]
    IN  /\ Exists(l)
        /\ Takes(SetLim(s, l,
                IF l \in GlobalIds THEN GlobalUpdate(lim[l], r)
                ELSE IF raised THEN UpdateRaised(lim[l], r)
                ELSE Update(lim[l], r)))

NextFold ==
    \/ \E l \in LimIds : Acquire(l)
    \/ \E l \in LimIds, r \in FoldResponses : Fold(l, r)
    \/ \E l \in LimIds : ResetTimer(l, TRUE)
    \/ Tick

SpecFold == InitFold /\ [][NextFold]_vars

\* update() has just been called on a url limiter, on a global limiter
FoldedLocal == gh.fold # <<>> /\ gh.fold.l \in LocalIds
FoldedGlobal == gh.fold # <<>> /\ gh.fold.l \in GlobalIds

\* the response carries none of the X-RateLimit headers
Headerless(r) ==
    /\ ~r.glob /\ r.bucket = None /\ r.limit = None
    /\ r.remaining = Absent /\ r.reset_after = None

(***************************************************************************)
(* C25 (as stated): when the first response folded into a fresh url        *)
(* limiter carries no rate-limit headers, the limiter has limit = 1 and    *)
(* remaining = 1 afterwards and the update has armed no reset task.        *)
(***************************************************************************)
C25_HeaderlessArmsNothing ==
    (FoldedLocal /\ gh.fold.was.first_update /\ Headerless(gh.fold.r))
        => /\ lim[gh.fold.l].limit = 1
           /\ lim[gh.fold.l].remaining = 1
           /\ lim[gh.fold.l].timer = gh.fold.was.timer
           /\ lim[gh.fold.l].left = gh.fold.was.left

(***************************************************************************)
(* C25 (amended): when the first response folded into a fresh url limiter  *)
(* carries no rate-limit headers, the limiter has limit = 1 and remaining  *)
(* = 1 afterwards, and a reset task sleeping reset_after is live: the one  *)
(* an exhausted acquire had armed, else one that this update arms.         *)
(***************************************************************************)
C25_HeaderlessArmsReset ==
    (FoldedLocal /\ gh.fold.was.first_update /\ Headerless(gh.fold.r))
        => LET L == lim[gh.fold.l]
               W == gh.fold.was
           IN  /\ L.limit = 1 /\ L.remaining = 1
               /\ L.tasks = 1 /\ L.timer = W.reset_after
               /\ L.left = IF Resetting(W) THEN W.left
                           ELSE W.reset_after * TicksPerSecond

\* a fresh limiter without a reset task has taken a header-less response
C25_Witness ==
    /\ FoldedLocal /\ gh.fold.was.first_update /\ Headerless(gh.fold.r)
    /\ ~Resetting(gh.fold.was)
    /\ Resetting(lim[gh.fold.l])

\* one route whose server now and then answers with a global 429; trail
\* holds the points each request has passed in its current iteration
InitOrder == InitWith({"order"})

SpecOrder == InitOrder /\ [][NextGlobal]_vars

\* the points of one iteration of the loop of request(), in the order of
\* lines 610-712
Iteration ==
    <<"global", "lstart", "local", "send", "gupdate", "lupdate", "classify">>

(***************************************************************************)
(* C26: in every iteration of request() the token of the global limiter    *)
(* is taken before the acquire of the local limiter starts, the HTTPS      *)
(* request is sent only after both acquisitions have succeeded, and the    *)
(* global limiter and then the local limiter are updated from the response *)
(* before the status is classified.                                        *)
(***************************************************************************)
C26_IterationOrder ==
    \A t \in Tasks :
        /\ Len(task[t].trail) <= Len(Iteration)
        /\ task[t].trail = SubSeq(Iteration, 1, Len(task[t].trail))

\* after a global 429, a request has gone through a whole iteration
C26_Witness ==
    \E t \in Tasks :
        gh.faults > 0 /\ task[t].pc = "done" /\ task[t].trail = Iteration

(***************************************************************************)
(* C27: update() of a url limiter whose bucket is known, with a response   *)
(* that is not marked global and whose X-RateLimit-Bucket is another one   *)
(* or is missing, raises IncorrectBucket and leaves every field of the     *)
(* limiter as it was, its reset task included, also when the status of the *)
(* response is 404.                                                        *)
(***************************************************************************)
C27_IncorrectBucketChangesNothing ==
    (/\ FoldedLocal
     /\ ~gh.fold.r.glob
     /\ gh.fold.was.bucket # None
     /\ gh.fold.r.bucket # gh.fold.was.bucket)
        => gh.fold.raised /\ lim[gh.fold.l] = gh.fold.was

\* a 404 of another bucket has met a limiter that was not denying
C27_Witness ==
    /\ FoldedLocal /\ gh.fold.raised
    /\ gh.fold.r.status = 404 /\ gh.fold.r.bucket \in Buckets
    /\ ~gh.fold.was.deny /\ Resetting(gh.fold.was)

\* requests on one route whose server names now one bucket, now the other,
\* now none; raised marks a request whose local update raised
InitBucket == InitWith({"slots", "raises"})

NextBucket == Serve(MaxCalls, {<<"r1", 1>>}, OkResponses, 0)

SpecBucket == InitBucket /\ [][NextBucket]_vars

(***************************************************************************)
(* C28: when the local update of a response raises IncorrectBucket, the    *)
(* route slot is bound to the entry of the bucket table for the response's *)
(* bucket if there is one and to a newly made limiter otherwise, the       *)
(* response is folded into that limiter without IncorrectBucket being      *)
(* raised again, and the limiter the slot is left bound to has the         *)
(* response's bucket as its bucket.                                        *)
(***************************************************************************)
C28_RebindOnIncorrectBucket ==
    [][\A t \in Tasks :
        LET slot == task[t].slot
            old == lim[task[t].url].bucket
            b == gh'.lastBucket[slot]
            n == routes'[slot]
        IN  (/\ task[t].pc = "http" /\ task'[t].pc # "http"
             /\ old # None /\ old # b)
                => /\ task'[t].pc = "decode"
                   /\ task'[t].url = n
                   /\ IF b # None /\ buckets[b] # None
                      THEN n = buckets[b] /\ nlim' = nlim
                      ELSE n = nlim + 1 /\ nlim' = nlim + 1
                   /\ lim'[n].bucket = b
                   /\ lim'[n].first_update = FALSE]_vars

\* a raised update has rebound the slot to the table's entry
C28_Witness ==
    \E t \in Tasks :
        /\ task[t].raised /\ task[t].pc = "decode"
        /\ gh.lastBucket[task[t].slot] \in Buckets
        /\ routes[task[t].slot] = buckets[gh.lastBucket[task[t].slot]]
        /\ routes[task[t].slot] # nlim

(***************************************************************************)
(* C29: update() with a response marked X-RateLimit-Global: true leaves    *)
(* every field of a url limiter as it was, update() with a response not    *)
(* so marked leaves every field of a global limiter as it was, and the     *)
(* limit of a global limiter is the configured one at all times.           *)
(***************************************************************************)
C29_UpdateFrames ==
    /\ (FoldedLocal /\ gh.fold.r.glob) => lim[gh.fold.l] = gh.fold.was
    /\ (FoldedGlobal /\ ~gh.fold.r.glob) => lim[gh.fold.l] = gh.fold.was
    /\ \A a \in Auths : lim[GlobalOf(a)].limit = DefaultMaxPerSecond

\* a url limiter has been given a global response whose headers it would
\* have taken, and a global limiter has been hit before
C29_Witness ==
    /\ FoldedLocal /\ gh.fold.r.glob
    /\ gh.fold.r.limit # None /\ gh.fold.r.limit # gh.fold.was.limit
    /\ gh.fold.r.reset_after > gh.fold.was.reset_after
    /\ \E a \in Auths : lim[GlobalOf(a)].reset_after > 1 + TimeOffset

(***************************************************************************)
(* C30: while a reset task of a url limiter is live, an update whose       *)
(* X-RateLimit-Reset-After plus time_offset is not larger than the         *)
(* limiter's reset_after (or that carries none) leaves the task as it is,  *)
(* and an update whose value is larger cancels it and arms one new task    *)
(* that sleeps the larger value; no limiter, url or global, ever has more  *)
(* than one live reset task.                                               *)
(***************************************************************************)
C30_OneResetTimer ==
    /\ (FoldedLocal /\ ~gh.fold.raised /\ ~gh.fold.r.glob /\ Resetting(gh.fold.was))
        => LET L == lim[gh.fold.l]
               W == gh.fold.was
               x == gh.fold.r.reset_after
           IN  IF x = None \/ x + TimeOffset <= W.reset_after
               THEN L.timer = W.timer /\ L.left = W.left /\ L.tasks = W.tasks
               ELSE /\ L.reset_after = x + TimeOffset
                    /\ L.timer = x + TimeOffset
                    /\ L.left = (x + TimeOffset) * TicksPerSecond
                    /\ L.tasks = 1
    /\ \A l \in LimIds :
            lim[l].tasks = IF Resetting(lim[l]) THEN 1 ELSE 0

\* a reset task that had slept part of its time was replaced by a longer one
C30_Witness ==
    /\ FoldedLocal /\ ~gh.fold.raised /\ Resetting(gh.fold.was)
    /\ gh.fold.was.left < gh.fold.was.timer * TicksPerSecond
    /\ gh.fold.r.reset_after # None
    /\ gh.fold.r.reset_after + TimeOffset > gh.fold.was.reset_after
    /\ lim[gh.fold.l].left = lim[gh.fold.l].reset_after * TicksPerSecond

(***************************************************************************)
(* C31: a limiter that is demoted names a bucket whose entry in the bucket *)
(* table exists, carries that bucket and is not demoted itself, so that a  *)
(* request() that catches RateLimitMigrating always finds the canonical    *)
(* limiter, and no request() ends in one of the three ValueErrors of the   *)
(* migration code (migrating is None, target not found, canonical limiter  *)
(* without bucket).                                                        *)
(***************************************************************************)
C31_MigrationTargetExists ==
    /\ \A l \in 1..nlim :
            lim[l].migrating # None
                => /\ buckets[lim[l].migrating] # None
                   /\ lim[buckets[lim[l].migrating]].bucket = lim[l].migrating
                   /\ lim[buckets[lim[l].migrating]].migrating = None
    /\ \A t \in Tasks : task[t].pc = "done" => task[t].out # "ValueError"

\* a woken waiter has caught RateLimitMigrating and gone on with the
\* canonical limiter
C31_Witness ==
    \E t \in Tasks :
        /\ task[t].mig # None
        /\ task[t].pc \notin {"idle", "done"}
        /\ lim[task[t].mig].migrating # None
        /\ task[t].url = buckets[lim[task[t].mig].migrating]

\* a GlobalRateLimit.update of the credential a is suspended in response.json()
UpdateSuspended(a) ==
    \E t \in Tasks : task[t].pc = "gjson" /\ task[t].slot[2] = a

NoUpdateStep ==
    \A t \in Tasks : task[t].pc \in {"http", "gjson"} => task'[t] = task[t]

(***************************************************************************)
(* C33: every reset task of a global limiter that is armed by an acquire() *)
(* sleeps 1 + time_offset seconds, also after a global 429 with a larger   *)
(* retry_after has been absorbed.                                          *)
(***************************************************************************)
C33_AcquireWindowIsOneSecond ==
    [][\A a \in Auths :
        (/\ NoUpdateStep
         /\ globals'[a] # None
         /\ Resetting(lim'[globals'[a]])
         /\ globals[a] = None \/ ~Resetting(lim[globals[a]]))
            => lim'[globals'[a]].timer = 1 + TimeOffset]_vars

(***************************************************************************)
(* Termination.  Two callers on one route; the server answers 502 as      *)
(* often as one request() can retry, and 200 without rate-limit headers.   *)
(* The event loop runs every coroutine that is ready, HTTPS calls and body *)
(* reads complete, sleeps end and reset tasks fire: weak fairness of each  *)
(* of these steps.  The step of a request that is woken, awaits its        *)
(* response or sleeps is enabled exactly while the request is at that      *)
(* point and always moves it on, so its weak fairness is stated on the     *)
(* point: the request is not there forever.  Nothing obliges a caller to   *)
(* make a request or to pick up its result.                                *)
(***************************************************************************)
LiveResponses == {NoHeaders(200), Headers(502, 1, 1, 0, 2)}

InitLive == InitWith({"sends"})

NextLive ==
    \/ Serve(FaultCalls, {<<"r1", 1>>}, LiveResponses, LiveFaults)
    \/ \E t \in Tasks : BackoffDone(t)

\* the request t does not stay at the point pc for ever
Leaves(t, pc) == []<>(task[t].pc # pc)

\* at each of these points the step of the request can be taken and moves it
CanLeave ==
    \A t \in Tasks :
        LET after == CASE task[t].pc = "gwoken" -> GlobalAcquire(World, t)
                       [] task[t].pc = "lwoken" -> LocalAcquire(World, t)
                       [] task[t].pc = "http" -> Respond(World, t, NoHeaders(200))
                       [] task[t].pc = "sleep" -> LoopBottom(World, t)
                       [] OTHER -> World
        IN  task[t].pc \in {"gwoken", "lwoken", "http", "sleep"}
                => ~after.ovf /\ after.task[t].pc # task[t].pc

Fairness ==
    /\ \A t \in Tasks : Leaves(t, "gwoken")       \* GlobalWake(t)
    /\ \A t \in Tasks : Leaves(t, "lwoken")       \* LocalWake(t)
    /\ \A t \in Tasks : Leaves(t, "http")         \* Response(t, r, ...)
    /\ \A t \in Tasks : Leaves(t, "sleep")        \* BackoffDone(t)
    /\ \A t \in Tasks : WF_vars(BodyRead(t))
    /\ \A l \in LimIds : WF_vars(ResetTimer(l, FALSE))

SpecLive == InitLive /\ [][NextLive]_vars /\ Fairness

\* request() is running: called and neither returned nor raised
Running(t) == task[t].pc \notin {"idle", "done"}

(***************************************************************************)
(* C34: every call of request() ends, by returning or raising, and at no   *)
(* time has it begun more than MaxRetryCount iterations or sent more than  *)
(* MaxRetryCount HTTPS requests.                                           *)
(***************************************************************************)
C34_RequestTerminates ==
    /\ [](\A t \in Tasks : /\ task[t].retry < MaxRetryCount
                           /\ task[t].sends <= MaxRetryCount)
    /\ \A t \in Tasks : Running(t) ~> task[t].pc = "done"

\* a request() has ended after five HTTPS requests
C34_Witness ==
    \E t \in Tasks : task[t].pc = "done" /\ task[t].sends = MaxRetryCount

(***************************************************************************)
(* A clear latch has a reset task.                                         *)
(***************************************************************************)
\* C35: in every reachable state, every limiter that exists, url or global,
\* whose ready latch (_on_reset_event) is clear has a live reset task, so a
\* task suspended in acquire() always has something scheduled to wake it
C35_ClearLatchHasResetTask ==
    \A l \in LimIds : (Exists(l) /\ ~lim[l].ev) => Resetting(lim[l])

\* a request is suspended on the clear latch of the global limiter while
\* another is suspended on the clear latch of a url limiter
C35_Witness ==
    \E t, u \in Tasks :
        /\ task[t].pc = "gwait" /\ ~lim[GlobalOf(task[t].slot[2])].ev
        /\ task[u].pc = "lwait" /\ ~lim[task[u].url].ev

(***************************************************************************)
(* Every acquire() is left.                                                *)
(***************************************************************************)
\* the request t is inside acquire() of the global or of a url limiter
Acquiring(t) == task[t].pc \in {"gwait", "gwoken", "lwait", "lwoken"}

\* two routes whose server names one bucket, reports it used up for 2 s, or
\* answers 404, so that waiters are woken by resets, demotions and denials
WaitResponses == {Headers(200, 1, 1, 0, 2), NoHeaders(404)}

InitWait == InitWith({})

NextWait == Serve(MaxCalls, Slots, WaitResponses, 0)

SpecWait == InitWait /\ [][NextWait]_vars /\ Fairness

\* C36: under fair scheduling and firing timers, with finitely many competing
\* requests and updates, every task suspended in acquire() eventually leaves
\* it, also when an update restarts the reset task it waits for
C36_AcquireLeaves == \A t \in Tasks : Acquiring(t) ~> ~Acquiring(t)

\* a request waits on a url limiter whose reset task an update has restarted
\* with the longer reset_after the server reported
C36_Witness ==
    \E t \in Tasks :
        /\ task[t].pc = "lwait"
        /\ ~lim[task[t].url].ev
        /\ lim[task[t].url].timer = 2
        /\ lim[task[t].url].tasks = 1
        /\ gh.calls = MaxCalls

(***************************************************************************)
(* The buckets table only grows.                                           *)
(***************************************************************************)
\* C37: the buckets table is stable and well-keyed: the limiter stored under
\* bucket b carries the bucket b, and once buckets[b] is set no step
\* replaces or removes the entry
C37_BucketsStable ==
    /\ [](\A b \in Buckets : buckets[b] # None => lim[buckets[b]].bucket = b)
    /\ [][\A b \in Buckets : buckets[b] # None => buckets'[b] = buckets[b]]_vars

\* both buckets have their limiter, and a second limiter that was given the
\* bucket of one of them has been demoted instead of taking its place
C37_Witness ==
    /\ \A b \in Buckets : buckets[b] # None
    /\ \E l \in Made :
        /\ lim[l].migrating # None
        /\ buckets[lim[l].bucket] # l

(***************************************************************************)
(* Who is denied after a 404.                                              *)
(***************************************************************************)
\* two routes of one bucket with tokens to spare, answered 200 or 404
DenyResponses == {Headers(st, 1, 2, 1, 1) : st \in {200, 404}}

InitDeny == InitWith({"denials"})

NextDeny == Serve(MaxCalls, Slots, DenyResponses, 0)

SpecDeny == InitDeny /\ [][NextDeny]_vars

\* C39: denial is confined to the route slot that received the 404: a
\* request() fails at acquire as denied only on a route key that has itself
\* been answered 404, also when two route keys share a canonical limiter
\* and when the 404 is replayed on the canonical limiter during migration
C39_DenialConfinedToSlot ==
    \A t \in Tasks :
        task[t].pc = "done" /\ task[t].out = "Denied"
            => gh.got404[task[t].slot]

(***************************************************************************)
(* A handler that is used with two credentials.                            *)
(***************************************************************************)
BothAuths == {1, 2}                    \* Authorization values of two bots
BothSlots == Routes \X BothAuths       \* their keys of _url_rate_limits
BothLimIds == LocalIds \cup {GlobalOf(a) : a \in BothAuths}

\* both bots use one route; the server names its bucket, whoever asks
CredResponses == {Headers(200, 1, 2, 1, 1), NoHeaders(200)}

InitCred ==
    /\ lim = [l \in BothLimIds |-> NewRateLimit]
    /\ nlim = 0
    /\ globals = [a \in BothAuths |-> None]
    /\ routes = [sl \in BothSlots |-> None]
    /\ buckets = [b \in Buckets |-> None]
    /\ task = [t \in Tasks |-> IdleTask]
    /\ events = NewFramework
    /\ gh = [NewHistory({}) EXCEPT
                !.grants = [l \in BothLimIds |-> 0],
                !.gen404 = [sl \in BothSlots |-> None],
                !.lastBucket = [sl \in BothSlots |-> None],
                !.got404 = [sl \in BothSlots |-> FALSE],
                !.hit = [a \in BothAuths |-> FALSE],
                !.quiet = [a \in BothAuths |-> 0]]

NextCred ==
    \/ \E t \in Tasks, a \in BothAuths : Request(t, <<"r1", a>>, MaxCalls)
    \/ \E t \in Tasks : Return(t)
    \/ \E t \in Tasks : GlobalWake(t)
    \/ \E t \in Tasks : LocalWake(t)
    \/ \E t \in Tasks, r \in CredResponses : Response(t, r, 0)
    \/ \E t \in Tasks : BodyRead(t)
    \/ \E l \in BothLimIds : ResetTimer(l, FALSE)

SpecCred == InitCred /\ [][NextCred]_vars

\* C38: url limiters are isolated per credential: route slots of different
\* credentials are never bound to the same limiter object, also when the
\* server reports the same bucket to both
C38_LimitersPerCredential ==
    \A s1 \in BothSlots, s2 \in BothSlots :
        s1[2] # s2[2] /\ routes[s1] # None => routes[s1] # routes[s2]

(***************************************************************************)
(* wait_for and dispatch.                                                  *)
(***************************************************************************)
\* a step of the framework leaves the handler alone
HandlerUnchanged == UNCHANGED <<lim, nlim, globals, routes, buckets, task, gh>>

\* lines 96-110: wait_for up to its await
WaitFor(w) ==
    /\ events.pc[w] = "idle"
    /\ events' = [events EXCEPT !.future[w] = "pending",
                                !.temp = @ \cup {w},
                                !.pc[w] = "waiting"]
    /\ HandlerUnchanged

\* lines 118-143: dispatch(event, ...); no permanent listener is registered
DispatchEvent(check) ==
    /\ events.dispatched < MaxDispatches
    /\ \E order \in Orders(events.temp) :
          LET E == DispatchTemporary(events, order, check)
          IN  events' = [E EXCEPT !.dispatched = @ + 1,
                                  !.raised = @ \/ E.err,
                                  !.err = FALSE]
    /\ HandlerUnchanged

\* the timeout of asyncio.wait_for runs out, or the waiting task is
\* cancelled: the future is cancelled at once where the task awaits the
\* future itself, and when the task runs again where it awaits a helper
Expire(w, now) ==
    /\ events.pc[w] = "waiting"
    /\ events.future[w] = "pending"
    /\ events' = [events EXCEPT !.pc[w] = "expired",
                                !.future[w] = IF now THEN "cancelled" ELSE @]
    /\ HandlerUnchanged

\* lines 110-116: the task of wait_for runs again, and its finally clause
Resume(w) ==
    /\ \/ events.pc[w] = "expired"
       \/ events.pc[w] = "waiting" /\ events.future[w] \in {"result", "exception"}
    /\ events' = [events EXCEPT !.pc[w] = "finished",
                                !.temp = @ \ {w},
                                !.future[w] = IF @ = "pending" THEN "cancelled"
                                              ELSE @]
    /\ HandlerUnchanged

InitEvents == InitWith({})

NextEvents ==
    \/ \E w \in Waiters : WaitFor(w)
    \/ \E check \in [Waiters -> Checks] : DispatchEvent(check)
    \/ \E w \in Waiters, now \in BOOLEAN : Expire(w, now)
    \/ \E w \in Waiters : Resume(w)

SpecEvents == InitEvents /\ [][NextEvents]_vars

\* C40: the future of each wait_for call is completed at most once and no
\* dispatch fails on a future that is already completed, whatever the
\* dispatches and the checks do before the waiting task resumes; once
\* wait_for has finished its listener is no longer registered
C40_FutureCompletedOnce ==
    /\ ~events.raised
    /\ \A w \in Waiters : events.sets[w] <= 1
    /\ \A w \in Waiters : events.pc[w] = "finished" => w \notin events.temp
====
